---- MODULE Spec2Model ----
(***************************************************************************)
(* The meta-assets pallet (pallets/meta-assets/src/lib.rs): two storage    *)
(* maps, AssetsStore and MetadataStore, and the four dispatchable calls    *)
(* add_asset, transfer_asset, update_meta and register_admin.  Every call  *)
(* is one atomic step (the runtime executes extrinsics one after another). *)
(***************************************************************************)
EXTENDS Integers, Sequences, FiniteSets, TLC

VARIABLES AssetsStore, MetadataStore, events, last

vars == <<AssetsStore, MetadataStore, events, last>>

(***************************************************************************)
(* Bounds of the model.                                                    *)
(***************************************************************************)
\* number of successful add_asset calls explored (the event log grows with each)
MaxEvents == 2

(***************************************************************************)
(* Constants of the program.                                               *)
(***************************************************************************)
\* ensure!(asset_name.len() > 3, ...)
ShortNameLen == 3
\* ensure!(asset_name.len() < 32, ...)
LongNameLen == 32

(***************************************************************************)
(* Input domains.                                                          *)
(***************************************************************************)
\* T::AccountId: the signed origins, written as the byte that encodes them
Accounts == {1, 2, 3}
\* the two accounts that act when several assets are explored
Pair == {1, 2}
\* the one creator when three parties act on one asset
Solo == {1}

\* a Vec<u8> of n bytes, all equal to b
Bytes(b, n) == [i \in 1..n |-> b]

\* asset names around both length limits
ShortName == Bytes(97, ShortNameLen)
ValidName == Bytes(97, ShortNameLen + 1)
LongName  == Bytes(97, LongNameLen)
Names == {ShortName, ValidName, LongName}
\* a second storable name of the same length, with other bytes
OtherName == Bytes(98, ShortNameLen + 1)
TwoNames == {ValidName, OtherName}

\* names of every length from 0 to one past the upper limit
AllLenNames == {Bytes(97, n) : n \in 0..(LongNameLen + 1)}
\* the lengths at, next to and between the two limits
LenCases == {0, 1, ShortNameLen, ShortNameLen + 1, 16, LongNameLen - 1, LongNameLen,
             LongNameLen + 1}
LenNames == {Bytes(97, n) : n \in LenCases}

\* Option<Vec<u8>>: None is the empty tuple, Some(v) the one-element tuple <<v>>
None == <<>>
Some(v) == <<v>>
Metas == {None, Some(<<118>>)}

(***************************************************************************)
(* AssetItem and its hash.                                                 *)
(***************************************************************************)
AssetItem(name, owner) == [name |-> name, owner |-> owner]

\* SCALE encoding of AssetItem (derive(Encode)): the compact length of the
\* name (one byte, 4 * len, for len < 64), the bytes of the name, the account
Encode(asset) == <<4 * Len(asset.name)>> \o asset.name \o <<asset.owner>>

\* a hash salted with the number of events so far, as a nonce would be
hash_of_salted(asset) == <<"H", Len(events)>> \o Encode(asset)

\* a hash of the owner alone, the name left out
hash_of_ownerOnly(asset) == <<"H", asset.owner>>

\* T::Hashing::hash_of(&asset): the digest of the encoded item; the hash is
\* collision resistant, so the digest is identified with its preimage
hash_of(asset) == <<"H">> \o Encode(asset)

\* T::Hash values a caller may pass: the identifiers of the assets the given
\* creators can store, and the hash of an item that is never stored
NoAsset == hash_of(AssetItem(ShortName, 1))
HashesOf(creators) == {hash_of(AssetItem(ValidName, a)) : a \in creators} \cup {NoAsset}
Hashes == HashesOf(Accounts)

(***************************************************************************)
(* Storage primitives (StorageMap / StorageDoubleMap).                     *)
(***************************************************************************)
\* <Map>::insert(key, value): store the value, overwriting any previous one
insert(map, key, value) ==
    [k \in (DOMAIN map) \cup {key} |-> IF k = key THEN value ELSE map[k]]

\* <Map>::contains_key(key)
contains_key(map, key) == key \in DOMAIN map

\* <Map>::get(key) with OptionQuery
get(map, key) == IF key \in DOMAIN map THEN Some(map[key]) ELSE None

\* an empty storage map
EmptyMap == [k \in {} |-> None]

(***************************************************************************)
(* Dispatch results: the DispatchResult and the storage after the call.    *)
(***************************************************************************)
Ok == "Ok"

\* Err(e): the call returns before any write: storage and events as before
Err(e) ==
    [res |-> e, assets |-> AssetsStore, meta |-> MetadataStore, events |-> events]

\* Self::deposit_event(event)
deposit_event(log, event) == Append(log, event)

AssetWasStored(name, who) == [event |-> "AssetWasStored", name |-> name, who |-> who]

(***************************************************************************)
(* Faulty variants of the calls: each is a call with one plausible slip.   *)
(***************************************************************************)
\* <Map>::remove of every key the predicate selects
remove_where(map, Gone(_)) == [k \in {x \in DOMAIN map : ~Gone(x)} |-> map[k]]

\* update_meta without its ensure!: the slot is written whoever calls
update_meta_noEnsure(origin, hash, meta) ==
    [res    |-> Ok,
     assets |-> AssetsStore,
     meta   |-> insert(MetadataStore, <<hash, origin>>, meta),
     events |-> events]

\* update_meta that tests the stored value instead of the presence of the key
update_meta_byValue(origin, hash, meta) ==
    IF get(MetadataStore, <<hash, origin>>) \in {None, Some(None)}
    THEN Err("InvalidOwner")
    ELSE [res    |-> Ok,
          assets |-> AssetsStore,
          meta   |-> insert(MetadataStore, <<hash, origin>>, meta),
          events |-> events]

\* add_asset that deposits its event before it checks the name
add_asset_eventFirst(origin, asset_name, meta) ==
    LET log == deposit_event(events, AssetWasStored(asset_name, origin)) IN
    IF ~(Len(asset_name) > ShortNameLen)
    THEN [Err("ShortNameProvided") EXCEPT !.events = log]
    ELSE IF ~(Len(asset_name) < LongNameLen)
    THEN [Err("LongNameProvided") EXCEPT !.events = log]
    ELSE
        LET asset == AssetItem(asset_name, origin)
            asset_hash == hash_of(asset)
        IN  [res    |-> Ok,
             assets |-> insert(AssetsStore, asset_hash, asset),
             meta   |-> insert(MetadataStore, <<asset_hash, origin>>, meta),
             events |-> log]

\* add_asset with the upper limit off by one (<= instead of <)
add_asset_offByOne(origin, asset_name, meta) ==
    IF ~(Len(asset_name) > ShortNameLen) THEN Err("ShortNameProvided")
    ELSE IF ~(Len(asset_name) <= LongNameLen) THEN Err("LongNameProvided")
    ELSE
        LET asset == AssetItem(asset_name, origin)
            asset_hash == hash_of(asset)
        IN  [res    |-> Ok,
             assets |-> insert(AssetsStore, asset_hash, asset),
             meta   |-> insert(MetadataStore, <<asset_hash, origin>>, meta),
             events |-> deposit_event(events, AssetWasStored(asset_name, origin))]

\* add_asset that keeps the record already stored at the identifier
add_asset_keepExisting(origin, asset_name, meta) ==
    IF ~(Len(asset_name) > ShortNameLen) THEN Err("ShortNameProvided")
    ELSE IF ~(Len(asset_name) < LongNameLen) THEN Err("LongNameProvided")
    ELSE
        LET asset == AssetItem(asset_name, origin)
            asset_hash == hash_of(asset)
        IN  [res    |-> Ok,
             assets |-> IF contains_key(AssetsStore, asset_hash) THEN AssetsStore
                        ELSE insert(AssetsStore, asset_hash, asset),
             meta   |-> insert(MetadataStore, <<asset_hash, origin>>, meta),
             events |-> deposit_event(events, AssetWasStored(asset_name, origin))]

\* transfer_asset without the ensure! on the owner
transfer_asset_noOwnerCheck(origin, hash, destination) ==
    LET found == get(AssetsStore, hash) IN
    IF found = None THEN Err("InvalidHash")
    ELSE [res    |-> Ok,
          assets |-> insert(AssetsStore, hash, AssetItem(found[1].name, destination)),
          meta   |-> MetadataStore,
          events |-> events]

\* transfer_asset that revokes the metadata entries of the asset
transfer_asset_revoking(origin, hash, destination) ==
    LET found == get(AssetsStore, hash)
        OfAsset(k) == k[1] = hash
    IN
    IF found = None THEN Err("InvalidHash")
    ELSE IF ~(found[1].owner = origin) THEN Err("InvalidOwner")
    ELSE [res    |-> Ok,
          assets |-> insert(AssetsStore, hash, AssetItem(found[1].name, destination)),
          meta   |-> remove_where(MetadataStore, OfAsset),
          events |-> events]

\* transfer_asset that gives the new owner a metadata entry
transfer_asset_grantingMeta(origin, hash, destination) ==
    LET found == get(AssetsStore, hash) IN
    IF found = None THEN Err("InvalidHash")
    ELSE IF ~(found[1].owner = origin) THEN Err("InvalidOwner")
    ELSE [res    |-> Ok,
          assets |-> insert(AssetsStore, hash, AssetItem(found[1].name, destination)),
          meta   |-> insert(MetadataStore, <<hash, destination>>, None),
          events |-> events]

\* update_meta that removes the entry when the new value is None
update_meta_removeOnNone(origin, hash, meta) ==
    LET OfCaller(k) == k = <<hash, origin>> IN
    IF ~contains_key(MetadataStore, <<hash, origin>>) THEN Err("InvalidOwner")
    ELSE [res    |-> Ok,
          assets |-> AssetsStore,
          meta   |-> IF meta = None THEN remove_where(MetadataStore, OfCaller)
                     ELSE insert(MetadataStore, <<hash, origin>>, meta),
          events |-> events]

\* update_meta that asks for the recorded owner instead of the entry
update_meta_ownerOnly(origin, hash, meta) ==
    LET found == get(AssetsStore, hash) IN
    IF found = None THEN Err("InvalidOwner")
    ELSE IF ~(found[1].owner = origin) THEN Err("InvalidOwner")
    ELSE [res    |-> Ok,
          assets |-> AssetsStore,
          meta   |-> insert(MetadataStore, <<hash, origin>>, meta),
          events |-> events]

\* register_admin that keeps an entry that is already there
register_admin_keepExisting(origin, hash, admin_address) ==
    LET found == get(AssetsStore, hash) IN
    IF found = None THEN Err("InvalidHash")
    ELSE IF ~(found[1].owner = origin) THEN Err("InvalidOwner")
    ELSE [res    |-> Ok,
          assets |-> AssetsStore,
          meta   |-> IF contains_key(MetadataStore, <<hash, admin_address>>)
                     THEN MetadataStore
                     ELSE insert(MetadataStore, <<hash, admin_address>>, None),
          events |-> events]

\* transfer_asset that deposits an event of its own
transfer_asset_emitting(origin, hash, destination) ==
    LET found == get(AssetsStore, hash) IN
    IF found = None THEN Err("InvalidHash")
    ELSE IF ~(found[1].owner = origin) THEN Err("InvalidOwner")
    ELSE [res    |-> Ok,
          assets |-> insert(AssetsStore, hash, AssetItem(found[1].name, destination)),
          meta   |-> MetadataStore,
          events |-> deposit_event(events,
                        [event |-> "AssetWasTransferred", name |-> found[1].name,
                         who |-> destination])]

\* add_asset that stores a metadata entry only when there is content
add_asset_skipNone(origin, asset_name, meta) ==
    IF ~(Len(asset_name) > ShortNameLen) THEN Err("ShortNameProvided")
    ELSE IF ~(Len(asset_name) < LongNameLen) THEN Err("LongNameProvided")
    ELSE
        LET asset == AssetItem(asset_name, origin)
            asset_hash == hash_of(asset)
        IN  [res    |-> Ok,
             assets |-> insert(AssetsStore, asset_hash, asset),
             meta   |-> IF meta = None THEN MetadataStore
                        ELSE insert(MetadataStore, <<asset_hash, origin>>, meta),
             events |-> deposit_event(events, AssetWasStored(asset_name, origin))]

\* update_meta that also lets the recorded owner in, entry or not
update_meta_ownerToo(origin, hash, meta) ==
    LET found == get(AssetsStore, hash)
        owns  == found # None /\ found[1].owner = origin
    IN
    IF ~(contains_key(MetadataStore, <<hash, origin>>) \/ owns)
    THEN Err("InvalidOwner")
    ELSE [res    |-> Ok,
          assets |-> AssetsStore,
          meta   |-> insert(MetadataStore, <<hash, origin>>, meta),
          events |-> events]

\* update_meta that looks the asset up first, as the other calls do
update_meta_checkingHash(origin, hash, meta) ==
    IF get(AssetsStore, hash) = None THEN Err("InvalidHash")
    ELSE IF ~contains_key(MetadataStore, <<hash, origin>>) THEN Err("InvalidOwner")
    ELSE [res    |-> Ok,
          assets |-> AssetsStore,
          meta   |-> insert(MetadataStore, <<hash, origin>>, meta),
          events |-> events]

(***************************************************************************)
(* The dispatchable calls, as functions of the current storage.            *)
(***************************************************************************)
add_asset(origin, asset_name, meta) ==
    LET owner == origin IN
    IF ~(Len(asset_name) > ShortNameLen) THEN Err("ShortNameProvided")
    ELSE IF ~(Len(asset_name) < LongNameLen) THEN Err("LongNameProvided")
    ELSE
        LET asset == AssetItem(asset_name, owner)
            asset_hash == hash_of(asset)
        IN  [res    |-> Ok,
             assets |-> insert(AssetsStore, asset_hash, asset),
             meta   |-> insert(MetadataStore, <<asset_hash, owner>>, meta),
             events |-> deposit_event(events, AssetWasStored(asset_name, owner))]

transfer_asset(origin, hash, destination) ==
    LET owner == origin
        found == get(AssetsStore, hash)
    IN
    IF found = None THEN Err("InvalidHash")
    ELSE
        LET asset == found[1] IN
        IF ~(asset.owner = owner) THEN Err("InvalidOwner")
        ELSE
            LET new_asset == AssetItem(asset.name, destination) IN
            [res    |-> Ok,
             assets |-> insert(AssetsStore, hash, new_asset),
             meta   |-> MetadataStore,
             events |-> events]

update_meta(origin, hash, meta) ==
    LET owner == origin IN
    IF ~contains_key(MetadataStore, <<hash, owner>>) THEN Err("InvalidOwner")
    ELSE
        [res    |-> Ok,
         assets |-> AssetsStore,
         meta   |-> insert(MetadataStore, <<hash, owner>>, meta),
         events |-> events]

register_admin(origin, hash, admin_address) ==
    LET owner == origin
        found == get(AssetsStore, hash)
    IN
    IF found = None THEN Err("InvalidHash")
    ELSE
        LET asset == found[1] IN
        IF ~(asset.owner = owner) THEN Err("InvalidOwner")
        ELSE
            [res    |-> Ok,
             assets |-> AssetsStore,
             meta   |-> insert(MetadataStore, <<hash, admin_address>>, None),
             events |-> events]

(***************************************************************************)
(* The state machine: one step per extrinsic.                              *)
(***************************************************************************)
Init ==
    /\ AssetsStore = EmptyMap
    /\ MetadataStore = EmptyMap
    /\ events = <<>>
    /\ last = [op |-> "none", res |-> Ok]

\* the storage after the call, and the call with its result
Apply(call, out) ==
    /\ AssetsStore' = out.assets
    /\ MetadataStore' = out.meta
    /\ events' = out.events
    /\ last' = [call EXCEPT !.res = out.res]

AddAsset(creators, names) ==
    \E origin \in creators, asset_name \in names, meta \in Metas :
        /\ Len(events) < MaxEvents
        /\ Apply([op |-> "add_asset", origin |-> origin, asset_name |-> asset_name,
                  meta |-> meta, res |-> Ok],
                 add_asset(origin, asset_name, meta))

TransferAsset(callers, hashes) ==
    \E origin \in callers, hash \in hashes, destination \in callers :
        Apply([op |-> "transfer_asset", origin |-> origin, hash |-> hash,
               destination |-> destination, res |-> Ok],
              transfer_asset(origin, hash, destination))

UpdateMeta(callers, hashes) ==
    \E origin \in callers, hash \in hashes, meta \in Metas :
        Apply([op |-> "update_meta", origin |-> origin, hash |-> hash,
               meta |-> meta, res |-> Ok],
              update_meta(origin, hash, meta))

RegisterAdmin(callers, hashes) ==
    \E origin \in callers, hash \in hashes, admin_address \in callers :
        Apply([op |-> "register_admin", origin |-> origin, hash |-> hash,
               admin_address |-> admin_address, res |-> Ok],
              register_admin(origin, hash, admin_address))

\* two accounts, each creating an asset and calling everything
Next ==
    \/ AddAsset(Pair, Names)
    \/ TransferAsset(Pair, HashesOf(Pair))
    \/ UpdateMeta(Pair, HashesOf(Pair))
    \/ RegisterAdmin(Pair, HashesOf(Pair))

Spec == Init /\ [][Next]_vars

\* three accounts acting on the asset of one creator
NextParties ==
    \/ AddAsset(Solo, Names)
    \/ TransferAsset(Accounts, HashesOf(Solo))
    \/ UpdateMeta(Accounts, HashesOf(Solo))
    \/ RegisterAdmin(Accounts, HashesOf(Solo))

SpecParties == Init /\ [][NextParties]_vars

\* one creator storing two names, two accounts calling everything
HashesOfNames == {hash_of(AssetItem(n, a)) : n \in TwoNames, a \in Solo}

NextNames ==
    \/ AddAsset(Solo, TwoNames)
    \/ TransferAsset(Pair, HashesOfNames)
    \/ UpdateMeta(Pair, HashesOfNames)
    \/ RegisterAdmin(Pair, HashesOfNames)

SpecNames == Init /\ [][NextNames]_vars

\* add_asset alone, with names of all the lengths of LenCases
NextLen == AddAsset(Pair, LenNames)

SpecLen == Init /\ [][NextLen]_vars

(***************************************************************************)
(* Vocabulary of the properties.                                           *)
(***************************************************************************)
\* the last call was op and returned Ok
Succeeded(op) == last.op = op /\ last.res = Ok

\* the account recorded as owner of a stored asset
OwnerOf(id) == AssetsStore[id].owner

\* a metadata entry keyed (id, account) is present
HasSlot(id, account) == <<id, account>> \in DOMAIN MetadataStore

\* the identifier add_asset derives for (name, creator)
IdOf(name, creator) == hash_of(AssetItem(name, creator))

\* the identifiers of the two assets of Spec, and of the one asset of SpecParties
Id1 == IdOf(ValidName, 1)
Id2 == IdOf(ValidName, 2)

ErrorKinds == {"ShortNameProvided", "LongNameProvided", "InvalidHash", "InvalidOwner"}

(***************************************************************************)
(* C1. Owner authority: a step that changes the owner recorded for an      *)
(* identifier already in AssetsStore, or that creates a metadata entry     *)
(* (id, X) for an account X other than the caller, is made by the account  *)
(* recorded as the owner of id before the step.                            *)
(* The code breaks it: add_asset by the creator overwrites the record of   *)
(* an asset that was transferred away, making the creator the owner again. *)
(***************************************************************************)
C1_OwnerAuthority ==
    [][\A id \in Hashes :
        (\/ /\ id \in DOMAIN AssetsStore
            /\ id \in DOMAIN AssetsStore'
            /\ AssetsStore'[id].owner # AssetsStore[id].owner
         \/ \E X \in Accounts :
                /\ X # last'.origin
                /\ <<id, X>> \notin DOMAIN MetadataStore
                /\ <<id, X>> \in DOMAIN MetadataStore')
        => (id \in DOMAIN AssetsStore /\ last'.origin = AssetsStore[id].owner)]_vars

(***************************************************************************)
(* C2. The owner of a stored record is changed by transfer_asset only: a   *)
(* successful add_asset, update_meta or register_admin leaves the owner of *)
(* every identifier that was in AssetsStore as it was.                     *)
(* The code breaks it, by the same overwrite in add_asset as C1.           *)
(***************************************************************************)
C2_OwnerChangedOnlyByTransfer ==
    [][(last'.op \in {"add_asset", "update_meta", "register_admin"} /\ last'.res = Ok)
        => \A id \in DOMAIN AssetsStore :
                /\ id \in DOMAIN AssetsStore'
                /\ AssetsStore'[id].owner = AssetsStore[id].owner]_vars

(***************************************************************************)
(* C3. Every identifier that is the first key of a MetadataStore entry is  *)
(* a key of AssetsStore.                                                   *)
(***************************************************************************)
C3_MetadataHasAsset ==
    \A k \in DOMAIN MetadataStore : k[1] \in DOMAIN AssetsStore

\* an asset carries the entry of an admin who is not its owner, and a call on
\* an identifier that is not stored was just refused
C3_Witness ==
    /\ last.op \in {"update_meta", "register_admin"}
    /\ last.hash = NoAsset
    /\ last.res # Ok
    /\ \E id \in DOMAIN AssetsStore, a \in Accounts : HasSlot(id, a) /\ a # OwnerOf(id)

(***************************************************************************)
(* C4. All or nothing: a call that returns an error leaves AssetsStore,    *)
(* MetadataStore and the event log as they were, and the error is one of   *)
(* ShortNameProvided, LongNameProvided, InvalidHash, InvalidOwner.         *)
(***************************************************************************)
C4_FailureChangesNothing ==
    [][last'.res # Ok =>
        /\ last'.res \in ErrorKinds
        /\ AssetsStore' = AssetsStore
        /\ MetadataStore' = MetadataStore
        /\ events' = events]_vars

\* a too long name was refused while an asset and its event were stored
C4_Witness ==
    /\ last.op = "add_asset"
    /\ last.res = "LongNameProvided"
    /\ AssetsStore # EmptyMap
    /\ Len(events) = 1

(***************************************************************************)
(* C5. transfer_asset is gated on the recorded owner: it returns           *)
(* InvalidHash when the identifier is not stored, InvalidOwner when it is  *)
(* stored with an owner other than the caller, and otherwise succeeds and  *)
(* leaves the record with the same name and the destination as owner.      *)
(* After a successful transfer from A to C # A, a further transfer by A    *)
(* returns InvalidOwner and one by C succeeds.                             *)
(***************************************************************************)
C5_TransferGate ==
    [][last'.op = "transfer_asset" =>
        LET caller == last'.origin
            id     == last'.hash
            dest   == last'.destination
        IN
        /\ id \notin DOMAIN AssetsStore => last'.res = "InvalidHash"
        /\ (id \in DOMAIN AssetsStore /\ AssetsStore[id].owner # caller)
              => last'.res = "InvalidOwner"
        /\ (id \in DOMAIN AssetsStore /\ AssetsStore[id].owner = caller)
              => /\ last'.res = Ok
                 /\ id \in DOMAIN AssetsStore'
                 /\ AssetsStore'[id] = [name |-> AssetsStore[id].name, owner |-> dest]
        /\ \A A \in Accounts, C \in Accounts, H \in Hashes :
              (last'.res = Ok /\ caller = A /\ id = H /\ dest = C /\ C # A)
              => \A d \in Accounts :
                    /\ (transfer_asset(A, H, d).res)' = "InvalidOwner"
                    /\ (transfer_asset(C, H, d).res)' = Ok]_vars

\* the creator transferred its asset away and its next transfer was refused
C5_Witness ==
    /\ last.op = "transfer_asset"
    /\ last.res = "InvalidOwner"
    /\ last.hash = Id1
    /\ last.origin = 1
    /\ Id1 \in DOMAIN AssetsStore
    /\ OwnerOf(Id1) = 3

(***************************************************************************)
(* C6. update_meta succeeds exactly when the entry (id, caller) is present *)
(* in MetadataStore, whatever its value, and returns InvalidOwner          *)
(* otherwise; on success it sets that one entry to the new value and       *)
(* leaves every other entry and AssetsStore as they were.                  *)
(***************************************************************************)
C6_UpdateMeta ==
    [][last'.op = "update_meta" =>
        LET slot == <<last'.hash, last'.origin>> IN
        /\ last'.res = Ok <=> slot \in DOMAIN MetadataStore
        /\ last'.res # Ok => last'.res = "InvalidOwner"
        /\ last'.res = Ok =>
              /\ DOMAIN MetadataStore' = DOMAIN MetadataStore
              /\ MetadataStore'[slot] = last'.meta
              /\ \A k \in DOMAIN MetadataStore \ {slot} :
                    MetadataStore'[k] = MetadataStore[k]
              /\ AssetsStore' = AssetsStore]_vars

\* an entry was set back to None while another entry of the same asset kept
\* its content
C6_Witness ==
    /\ Succeeded("update_meta")
    /\ last.meta = None
    /\ \E a \in Accounts :
          /\ a # last.origin
          /\ HasSlot(last.hash, a)
          /\ MetadataStore[<<last.hash, a>>] # None

(***************************************************************************)
(* C7. Delegation is durable: register_admin succeeds when the caller is   *)
(* the recorded owner of a stored identifier, returns InvalidOwner when    *)
(* the caller is not the owner and InvalidHash when the identifier is not  *)
(* stored; and once register_admin(_, id, D) has succeeded, update_meta by *)
(* D on id succeeds in every later state, whatever calls come in between.  *)
(* Stated as a step property: a successful registration makes update_meta  *)
(* by D succeed, and no step makes an update_meta that succeeds fail.      *)
(***************************************************************************)
\* update_meta by the account on the identifier succeeds, whatever the value
CanUpdate(account, id) ==
    \A m \in Metas : update_meta(account, id, m).res = Ok

C7_DelegationDurable ==
    [][/\ last'.op = "register_admin" =>
            LET caller == last'.origin
                id     == last'.hash
            IN
            /\ id \notin DOMAIN AssetsStore => last'.res = "InvalidHash"
            /\ (id \in DOMAIN AssetsStore /\ AssetsStore[id].owner # caller)
                  => last'.res = "InvalidOwner"
            /\ (id \in DOMAIN AssetsStore /\ AssetsStore[id].owner = caller)
                  => last'.res = Ok
       /\ \A D \in Accounts, H \in Hashes :
            (\/ /\ last'.op = "register_admin"
                /\ last'.res = Ok
                /\ last'.admin_address = D
                /\ last'.hash = H
             \/ CanUpdate(D, H))
            => CanUpdate(D, H)']_vars

\* the admin 2 of the asset of 1 updates its entry after the asset was stored
\* again and is owned by 3
C7_Witness ==
    /\ Succeeded("update_meta")
    /\ last.origin = 2
    /\ last.hash = Id1
    /\ OwnerOf(Id1) = 3
    /\ Len(events) = 2

(***************************************************************************)
(* C8. The name length gate of add_asset: the call returns                 *)
(* ShortNameProvided exactly when the name has at most 3 bytes,            *)
(* LongNameProvided exactly when it has at least 32, and succeeds for      *)
(* every length from 4 to 31; no other result is possible.  Checked of the *)
(* call just made, and of the result of add_asset in the current state for *)
(* every caller, metadata and name length from 0 to 33.                    *)
(***************************************************************************)
\* the result of add_asset agrees with the length gate
GateHolds(n, res) ==
    /\ res = "ShortNameProvided" <=> n <= 3
    /\ res = "LongNameProvided" <=> n >= 32
    /\ res = Ok <=> (4 <= n /\ n <= 31)

C8_NameLengthGate ==
    /\ last.op = "add_asset" => GateHolds(Len(last.asset_name), last.res)
    /\ \A c \in Accounts, name \in AllLenNames, m \in Metas :
          GateHolds(Len(name), add_asset(c, name, m).res)

\* a name of 31 bytes was stored, after a first asset
C8_Witness ==
    /\ Succeeded("add_asset")
    /\ Len(last.asset_name) = 31
    /\ Len(events) = 2

(***************************************************************************)
(* C9. The effect of a successful add_asset(caller, name, metadata), with  *)
(* id the hash of (name, caller): AssetsStore[id] = {name, owner: caller}  *)
(* and MetadataStore[(id, caller)] = metadata, whatever was stored at the  *)
(* two keys; every other key of both maps keeps its value; exactly one     *)
(* AssetWasStored(name, caller) event is appended.                         *)
(***************************************************************************)
C9_AddAssetEffect ==
    [][(last'.op = "add_asset" /\ last'.res = Ok) =>
        LET caller == last'.origin
            name   == last'.asset_name
            id     == IdOf(name, caller)
            slot   == <<id, caller>>
        IN
        /\ DOMAIN AssetsStore' = DOMAIN AssetsStore \cup {id}
        /\ AssetsStore'[id] = [name |-> name, owner |-> caller]
        /\ \A k \in DOMAIN AssetsStore \ {id} : AssetsStore'[k] = AssetsStore[k]
        /\ DOMAIN MetadataStore' = DOMAIN MetadataStore \cup {slot}
        /\ MetadataStore'[slot] = last'.meta
        /\ \A k \in DOMAIN MetadataStore \ {slot} : MetadataStore'[k] = MetadataStore[k]
        /\ Len(events') = Len(events) + 1
        /\ \A i \in 1..Len(events) : events'[i] = events[i]
        /\ events'[Len(events')] =
              [event |-> "AssetWasStored", name |-> name, who |-> caller]]_vars

\* an asset was stored a second time, over its record and its creator's entry,
\* while the entry of an admin stayed
C9_Witness ==
    /\ Succeeded("add_asset")
    /\ Len(events) = 2
    /\ events[1] = events[2]
    /\ \E a \in Accounts :
          /\ a # last.origin
          /\ HasSlot(IdOf(last.asset_name, last.origin), a)

(***************************************************************************)
(* C10. A successful transfer_asset leaves MetadataStore as it was: every  *)
(* entry keeps its presence and its value, no entry is created for the new *)
(* owner, and every record of AssetsStore other than the transferred one   *)
(* is unchanged.                                                           *)
(***************************************************************************)
C10_TransferFrame ==
    [][(last'.op = "transfer_asset" /\ last'.res = Ok) =>
        /\ DOMAIN MetadataStore' = DOMAIN MetadataStore
        /\ \A k \in DOMAIN MetadataStore : MetadataStore'[k] = MetadataStore[k]
        /\ DOMAIN AssetsStore' = DOMAIN AssetsStore
        /\ \A k \in DOMAIN AssetsStore \ {last'.hash} :
              AssetsStore'[k] = AssetsStore[k]]_vars

\* one of two assets went to an account that has no entry for it, and the
\* former owner's entry still holds its content
C10_Witness ==
    /\ Succeeded("transfer_asset")
    /\ last.destination # last.origin
    /\ OwnerOf(last.hash) = last.destination
    /\ ~HasSlot(last.hash, last.destination)
    /\ HasSlot(last.hash, last.origin)
    /\ MetadataStore[<<last.hash, last.origin>>] # None
    /\ Cardinality(DOMAIN AssetsStore) = 2

(***************************************************************************)
(* C11. Nothing is deleted: a key of AssetsStore stays a key in every      *)
(* later state, and an entry of MetadataStore that is present stays        *)
(* present (its value may change).                                         *)
(***************************************************************************)
C11_NothingDeleted ==
    [][/\ DOMAIN AssetsStore \subseteq DOMAIN AssetsStore'
       /\ DOMAIN MetadataStore \subseteq DOMAIN MetadataStore']_vars

\* both accounts hold an entry for both assets, and an entry was just set to
\* None by its holder
C11_Witness ==
    /\ Succeeded("update_meta")
    /\ last.meta = None
    /\ Cardinality(DOMAIN AssetsStore) = 2
    /\ Cardinality(DOMAIN MetadataStore) = 4

(***************************************************************************)
(* C12. Metadata authority survives the transfer of ownership: when A      *)
(* holds the entry (H, A) and transfers H to C # A, update_meta by A on H  *)
(* still succeeds for every value and sets A's entry to it, while          *)
(* transfer_asset and register_admin by A on H return InvalidOwner.        *)
(***************************************************************************)
C12_AuthoritySurvivesTransfer ==
    [][\A A \in Accounts, C \in Accounts, H \in Hashes :
        (/\ last'.op = "transfer_asset"
         /\ last'.res = Ok
         /\ last'.origin = A
         /\ last'.hash = H
         /\ last'.destination = C
         /\ C # A
         /\ HasSlot(H, A))
        => /\ \A m \in Metas :
                /\ (update_meta(A, H, m).res)' = Ok
                /\ (update_meta(A, H, m).meta[<<H, A>>])' = m
           /\ \A d \in Accounts :
                /\ (transfer_asset(A, H, d).res)' = "InvalidOwner"
                /\ (register_admin(A, H, d).res)' = "InvalidOwner"]_vars

\* the creator 1 gave its asset to 2 and then put content in its own entry
C12_Witness ==
    /\ Succeeded("update_meta")
    /\ last.origin = 1
    /\ last.hash = Id1
    /\ last.meta # None
    /\ MetadataStore[<<Id1, 1>>] = last.meta
    /\ OwnerOf(Id1) = 2

(***************************************************************************)
(* C13. The identifier add_asset derives is a function of (caller, name)   *)
(* alone and the call overwrites: in every state the keys of AssetsStore   *)
(* are exactly the identifiers of the (name, caller) pairs stored so far,  *)
(* one record per pair; and the same add_asset made twice in a row leaves  *)
(* AssetsStore and MetadataStore as after the first call, only the event   *)
(* log grows.                                                              *)
(***************************************************************************)
\* the (name, caller) pairs of the successful add_asset calls so far
StoredPairs == {<<events[i].name, events[i].who>> : i \in 1..Len(events)}

C13_SameIdentifierOverwrites ==
    [][/\ DOMAIN AssetsStore' = {IdOf(p[1], p[2]) : p \in StoredPairs'}
       /\ Cardinality(DOMAIN AssetsStore') = Cardinality(StoredPairs')
       /\ (/\ last.op = "add_asset"
           /\ last.res = Ok
           /\ last' = last
           /\ events' # events)
          => /\ AssetsStore' = AssetsStore
             /\ MetadataStore' = MetadataStore
             /\ events' = Append(events, events[Len(events)])]_vars

\* the same asset was stored twice with the same content: one record, one
\* entry, two events
C13_Witness ==
    /\ Succeeded("add_asset")
    /\ last.meta # None
    /\ Len(events) = 2
    /\ StoredPairs = {<<last.asset_name, last.origin>>}
    /\ DOMAIN AssetsStore = {IdOf(last.asset_name, last.origin)}
    /\ DOMAIN MetadataStore = {<<IdOf(last.asset_name, last.origin), last.origin>>}

(***************************************************************************)
(* C14. register_admin overwrites: a successful call sets the entry        *)
(* (id, admin) to None whatever was there (nothing, None or content, and   *)
(* also when the admin is the caller), and changes no other entry and no   *)
(* record of AssetsStore.                                                  *)
(***************************************************************************)
C14_RegisterAdminEffect ==
    [][(last'.op = "register_admin" /\ last'.res = Ok) =>
        LET slot == <<last'.hash, last'.admin_address>> IN
        /\ DOMAIN MetadataStore' = DOMAIN MetadataStore \cup {slot}
        /\ MetadataStore'[slot] = None
        /\ \A k \in DOMAIN MetadataStore \ {slot} : MetadataStore'[k] = MetadataStore[k]
        /\ AssetsStore' = AssetsStore]_vars

\* the owner registered itself over its own entry while the other account's
\* entry kept its content
C14_Witness ==
    /\ Succeeded("register_admin")
    /\ last.admin_address = last.origin
    /\ IdOf(ValidName, last.origin) = last.hash
    /\ MetadataStore[<<last.hash, last.origin>>] = None
    /\ \E a \in Accounts \ {last.origin} :
          /\ HasSlot(last.hash, a)
          /\ MetadataStore[<<last.hash, a>>] # None

(***************************************************************************)
(* C15. The slot state machine.  As claimed: the value of an entry (id, X) *)
(* that is present changes only in a successful update_meta step whose     *)
(* caller is X.  The code has two more such steps, both overwrites by      *)
(* insert: register_admin by the owner of id with X as admin sets the      *)
(* entry back to None, and add_asset by X of the asset whose identifier is *)
(* id sets it to the metadata of the call.                                 *)
(***************************************************************************)
\* the entry k is present before and after the step and its value differs
ValueChanges(k) ==
    /\ k \in DOMAIN MetadataStore
    /\ k \in DOMAIN MetadataStore'
    /\ MetadataStore'[k] # MetadataStore[k]

\* the step is a successful update_meta on the entry k by its holder
UpdatedByHolder(k) ==
    /\ last'.op = "update_meta"
    /\ last'.res = Ok
    /\ last'.hash = k[1]
    /\ last'.origin = k[2]

\* C15 as claimed
C15_OnlyUpdateChangesValue ==
    [][\A k \in DOMAIN MetadataStore : ValueChanges(k) => UpdatedByHolder(k)]_vars

\* C15 as amended: the value of a present entry (id, X) changes only in a
\* successful update_meta by X, in a successful register_admin by the recorded
\* owner of id naming X (the value becomes None), or in a successful add_asset
\* by X that derives id (the value becomes the metadata of the call)
C15_ValueChangesOnlyByThreeCalls ==
    [][\A k \in DOMAIN MetadataStore : ValueChanges(k) =>
        \/ UpdatedByHolder(k)
        \/ /\ last'.op = "register_admin"
           /\ last'.res = Ok
           /\ last'.hash = k[1]
           /\ last'.admin_address = k[2]
           /\ k[1] \in DOMAIN AssetsStore
           /\ last'.origin = AssetsStore[k[1]].owner
           /\ MetadataStore'[k] = None
        \/ /\ last'.op = "add_asset"
           /\ last'.res = Ok
           /\ last'.origin = k[2]
           /\ IdOf(last'.asset_name, last'.origin) = k[1]
           /\ MetadataStore'[k] = last'.meta]_vars

\* the new owner 2 of the asset of 1 registered 1, whose entry was there since
\* the asset was stored, and the entry is None
C15_Witness ==
    /\ Succeeded("register_admin")
    /\ last.origin = 2
    /\ last.hash = Id1
    /\ last.admin_address = 1
    /\ OwnerOf(Id1) = 2
    /\ MetadataStore[<<Id1, 1>>] = None

(***************************************************************************)
(* C16. The name of a record is immutable: once an identifier is a key of  *)
(* AssetsStore the name stored under it is the same in every later state,  *)
(* through transfers and repeated add_asset calls, and it is the name the  *)
(* identifier was derived from.                                            *)
(***************************************************************************)
C16_NameImmutable ==
    [][/\ \A id \in DOMAIN AssetsStore :
            /\ id \in DOMAIN AssetsStore'
            /\ AssetsStore'[id].name = AssetsStore[id].name
       /\ \A id \in DOMAIN AssetsStore' :
            \E creator \in Accounts : id = IdOf(AssetsStore'[id].name, creator)]_vars

\* two assets with different names are stored and one of them was just
\* transferred from its creator 1 to 2
C16_Witness ==
    /\ Succeeded("transfer_asset")
    /\ last.origin = 1
    /\ OwnerOf(last.hash) = 2
    /\ \E other \in DOMAIN AssetsStore :
          AssetsStore[other].name # AssetsStore[last.hash].name

(***************************************************************************)
(* C17. Event accounting: the event log changes only in a successful       *)
(* add_asset step, which appends one event carrying the name and the       *)
(* caller of the call; transfer_asset, update_meta and register_admin      *)
(* leave the log as it was whether they succeed or fail.  So the number of *)
(* events is the number of successful add_asset calls so far.              *)
(***************************************************************************)
C17_EventAccounting ==
    [][IF last'.op = "add_asset" /\ last'.res = Ok
       THEN events' = events \o
                <<[event |-> "AssetWasStored", name |-> last'.asset_name,
                   who |-> last'.origin]>>
       ELSE events' = events]_vars

\* two assets of two creators were stored, and a call that is not add_asset
\* has succeeded since
C17_Witness ==
    /\ last.op \in {"transfer_asset", "update_meta", "register_admin"}
    /\ last.res = Ok
    /\ Len(events) = 2
    /\ events[1].who # events[2].who

(***************************************************************************)
(* C18. The creator's entry: for every identifier in AssetsStore,          *)
(* MetadataStore holds the entry (id, creator), the creator being the      *)
(* account the identifier was derived from; the entry of the recorded      *)
(* owner need not exist.                                                   *)
(***************************************************************************)
C18_CreatorSlot ==
    \A id \in DOMAIN AssetsStore :
        /\ \E creator \in Accounts : id = IdOf(AssetsStore[id].name, creator)
        /\ \A creator \in Accounts :
              id = IdOf(AssetsStore[id].name, creator) => HasSlot(id, creator)

\* the asset of 1 is owned by 3, who has no entry for it; the only entry is
\* the creator's
C18_Witness ==
    /\ Id1 \in DOMAIN AssetsStore
    /\ OwnerOf(Id1) = 3
    /\ ~HasSlot(Id1, 3)
    /\ DOMAIN MetadataStore = {<<Id1, 1>>}

(***************************************************************************)
(* C19. The new owner gets no metadata rights by the transfer alone: after *)
(* a successful transfer_asset of H to C, the entry (H, C) being absent,   *)
(* update_meta by C on H returns InvalidOwner although C is the recorded   *)
(* owner, and it does so in every later state until the entry (H, C) is    *)
(* created by a successful register_admin naming C on H, which C can make  *)
(* for itself.  Stated as a step property: while H is stored and (H, C) is *)
(* absent update_meta by C is refused, and only such a register_admin      *)
(* makes the entry present.                                                *)
(***************************************************************************)
C19_NoRightsByTransfer ==
    [][\A C \in Accounts, H \in Hashes :
        /\ (H \in DOMAIN AssetsStore /\ ~HasSlot(H, C)) =>
              /\ \A m \in Metas : update_meta(C, H, m).res = "InvalidOwner"
              /\ HasSlot(H, C)' =>
                    /\ last'.op = "register_admin"
                    /\ last'.res = Ok
                    /\ last'.hash = H
                    /\ last'.admin_address = C
        /\ (/\ last'.op = "transfer_asset"
            /\ last'.res = Ok
            /\ last'.hash = H
            /\ last'.destination = C
            /\ ~HasSlot(H, C)) =>
              /\ AssetsStore'[H].owner = C
              /\ ~HasSlot(H, C)'
              /\ \A m \in Metas : (update_meta(C, H, m).res)' = "InvalidOwner"
              /\ (register_admin(C, H, C).res)' = Ok]_vars

\* 3 owns the asset of 1 and has no entry for it: its update_meta was refused
C19_Witness ==
    /\ last.op = "update_meta"
    /\ last.res = "InvalidOwner"
    /\ last.origin = 3
    /\ last.hash = Id1
    /\ Id1 \in DOMAIN AssetsStore
    /\ OwnerOf(Id1) = 3
    /\ ~HasSlot(Id1, 3)

(***************************************************************************)
(* C20. update_meta never returns InvalidHash: for an identifier that is   *)
(* not a key of AssetsStore it returns InvalidOwner for every caller and   *)
(* value, and changes nothing.  Checked of the call just made, and of the  *)
(* result of update_meta in the current state for every caller, value and  *)
(* identifier.                                                             *)
(***************************************************************************)
C20_UpdateMetaNeverInvalidHash ==
    /\ last.op = "update_meta" =>
          /\ last.res \in {Ok, "InvalidOwner"}
          /\ last.hash \notin DOMAIN AssetsStore => last.res = "InvalidOwner"
    /\ \A caller \in Accounts, id \in Hashes, m \in Metas :
          LET out == update_meta(caller, id, m) IN
          /\ out.res \in {Ok, "InvalidOwner"}
          /\ id \notin DOMAIN AssetsStore =>
                /\ out.res = "InvalidOwner"
                /\ out.assets = AssetsStore
                /\ out.meta = MetadataStore
                /\ out.events = events

\* update_meta on an identifier that is not stored was refused with
\* InvalidOwner, while the caller holds an entry for a stored asset
C20_Witness ==
    /\ last.op = "update_meta"
    /\ last.res = "InvalidOwner"
    /\ last.hash \notin DOMAIN AssetsStore
    /\ \E id \in DOMAIN AssetsStore : HasSlot(id, last.origin)

====
